---- MODULE Spec2Model ----
(***************************************************************************)
(* colorgram-rust: the RGB -> HSL conversion (rgb_to_hsl) and the palette  *)
(* extraction (extract) of src/src/lib.rs as a state machine.              *)
(*                                                                         *)
(* Integers wider than 31 bits (the u32 accumulators, the f32 significands *)
(* of the luminance) are kept as two limbs <<hi, lo>>, value               *)
(* hi * 65536 + lo with lo in 0..65535.  A u32 has hi in 0..65535.         *)
(***************************************************************************)
EXTENDS Integers, Sequences, FiniteSets, Bags, TLC

(***************************************************************************)
(* Bounds of the model.                                                    *)
(***************************************************************************)
\* Runs of equal pixels one image is made of, at most.
MaxRuns == 3
\* number_of_color ranges over 0..MaxColors and usize::MAX.
MaxColors == 3
\* Length of a long run of equal pixels: 255 * BigRun = 2^32 - 1, the
\* largest channel sum a u32 accumulator holds.
BigRun == 16843009
\* Stride of the sampled channel values 0, ChanStep, 2*ChanStep, ...
ChanStep == 36

(***************************************************************************)
(* Two-limb naturals.                                                      *)
(***************************************************************************)
Norm(h, l) == <<h + (l \div 65536), l % 65536>>

BigOf(n) == <<n \div 65536, n % 65536>>

BigAdd(a, b) == Norm(a[1] + b[1], a[2] + b[2])

\* a * k for a small factor k (hi * k and lo * k stay below 2^31).
BigMulSmall(a, k) == Norm(a[1] * k, a[2] * k)

BigLt(a, b) == a[1] < b[1] \/ (a[1] = b[1] /\ a[2] < b[2])

BigLe(a, b) == a = b \/ BigLt(a, b)

\* a - b for a >= b.
BigSub(a, b) ==
    IF a[2] >= b[2] THEN <<a[1] - b[1], a[2] - b[2]>>
                    ELSE <<a[1] - b[1] - 1, a[2] + 65536 - b[2]>>

\* Quotient and remainder of a by b > 0 (binary long division).
RECURSIVE BigDivMod(_, _)
BigDivMod(a, b) ==
    IF BigLt(a, b) THEN [q |-> <<0, 0>>, r |-> a]
    ELSE LET half == BigDivMod(a, BigAdd(b, b))
             q2   == BigAdd(half.q, half.q)
         IN  IF BigLe(b, half.r)
             THEN [q |-> BigAdd(q2, <<0, 1>>), r |-> BigSub(half.r, b)]
             ELSE [q |-> q2, r |-> half.r]

\* The value a u32 keeps of a natural: its low 32 bits.
WrapU32(a) == <<a[1] % 65536, a[2]>>

\* The natural does not fit a u32.
OverflowsU32(a) == a[1] >= 65536

\* `x as u8` of an integer: the low 8 bits (two's complement for x < 0).
AsU8(x) == x % 256

\* `x as u8` of a u32.
BigAsU8(a) == a[2] % 256

(***************************************************************************)
(* f32 arithmetic of the luminance, line 161.  A non-negative f32 is kept  *)
(* as the two-limb count of units of 2^-27; every value met is a whole     *)
(* number of them.                                                         *)
(***************************************************************************)
RECURSIVE BitLen(_)
BitLen(n) == IF n = 0 THEN 0 ELSE 1 + BitLen(n \div 2)

RECURSIVE Pow2(_)
Pow2(k) == IF k = 0 THEN 1 ELSE 2 * Pow2(k - 1)

\* Round to the 24 significant bits of an f32, ties to even.
RoundF32(a) ==
    LET len == IF a[1] = 0 THEN BitLen(a[2]) ELSE 16 + BitLen(a[1])
    IN  IF len <= 24 THEN a
        ELSE LET q    == Pow2(len - 24)
                 rem  == a[2] % q
                 odd  == (a[2] \div q) % 2 = 1
             IN  IF 2 * rem > q \/ (2 * rem = q /\ odd)
                 THEN Norm(a[1], a[2] - rem + q)
                 ELSE <<a[1], a[2] - rem>>

\* The f32 literals: 0.2126 = CoefR * 2^-26, 0.7152 = CoefG * 2^-24,
\* 0.0722 = CoefB * 2^-27 (the nearest f32 to each decimal).
CoefR == 14267344
CoefG == 11999065
CoefB == 9690520

F32Mul(coef, scale, c) == RoundF32(BigMulSmall(BigOf(coef), scale * c))

F32Add(x, y) == RoundF32(BigAdd(x, y))

\* rgb.r as f32 * 0.2126 + rgb.g as f32 * 0.7152 + rgb.b as f32 * 0.0722
Luma(rgb) ==
    F32Add(F32Add(F32Mul(CoefR, 2, rgb.r), F32Mul(CoefG, 8, rgb.g)),
           F32Mul(CoefB, 1, rgb.b))

\* `f as u8` of a non-negative f32: truncates, saturates at 255.
F32AsU8(f) == LET t == f[1] \div 2048 IN IF t > 255 THEN 255 ELSE t

(***************************************************************************)
(* Integer helpers.                                                        *)
(***************************************************************************)
Max2(a, b) == IF a >= b THEN a ELSE b

Min2(a, b) == IF a <= b THEN a ELSE b

\* i32 `/`: truncates toward zero.  A zero divisor panics in Rust; the
\* caller tests the divisors first, and the 0 here is never used.
DivI32(a, b) ==
    IF b = 0 THEN 0
    ELSE IF a >= 0 THEN a \div b ELSE -((-a) \div b)

RECURSIVE BitAnd(_, _)
BitAnd(a, b) ==
    IF a = 0 \/ b = 0 THEN 0
    ELSE (a % 2) * (b % 2) + 2 * BitAnd(a \div 2, b \div 2)

RECURSIVE BitOr(_, _)
BitOr(a, b) ==
    IF a = 0 THEN b
    ELSE IF b = 0 THEN a
    ELSE Max2(a % 2, b % 2) + 2 * BitOr(a \div 2, b \div 2)

Shl(x, k) == x * Pow2(k)

(***************************************************************************)
(* rgb_to_hsl, lines 86-116.                                               *)
(***************************************************************************)
\* The same with `l` not halved.
rgb_to_hsl_i32_NoShift(rgb) ==
    LET r     == rgb.r
        g     == rgb.g
        b     == rgb.b
        most  == Max2(Max2(r, g), b)
        least == Min2(Min2(r, g), b)
        l     == most + least
        diff  == most - least
        sden  == IF l > 127 THEN 510 - most - least ELSE most + least
        s     == DivI32(diff * 255, sden)
        h     == IF most = r
                 THEN DivI32(DivI32((g - b) * 255, diff)
                             + (IF g < b THEN 1530 ELSE 0), 6)
                 ELSE IF most = g
                 THEN DivI32(DivI32((b - r) * 255, diff) + 510, 6)
                 ELSE DivI32(DivI32((r - g) * 255, diff) + 1020, 6)
    IN  IF most = least
        THEN [h |-> 0, s |-> 0, l |-> l, divisors |-> {}]
        ELSE [h |-> h, s |-> s, l |-> l, divisors |-> {sden, diff, 6}]

\* The same with the offset 1530 of a negative hue left out.
rgb_to_hsl_i32_NoOffset(rgb) ==
    LET r     == rgb.r
        g     == rgb.g
        b     == rgb.b
        most  == Max2(Max2(r, g), b)
        least == Min2(Min2(r, g), b)
        l     == (most + least) \div 2
        diff  == most - least
        sden  == IF l > 127 THEN 510 - most - least ELSE most + least
        s     == DivI32(diff * 255, sden)
        h     == IF most = r
                 THEN DivI32(DivI32((g - b) * 255, diff), 6)
                 ELSE IF most = g
                 THEN DivI32(DivI32((b - r) * 255, diff) + 510, 6)
                 ELSE DivI32(DivI32((r - g) * 255, diff) + 1020, 6)
    IN  IF most = least
        THEN [h |-> 0, s |-> 0, l |-> l, divisors |-> {}]
        ELSE [h |-> h, s |-> s, l |-> l, divisors |-> {sden, diff, 6}]

\* The same without the achromatic branch.
rgb_to_hsl_i32_NoGrey(rgb) ==
    LET r     == rgb.r
        g     == rgb.g
        b     == rgb.b
        most  == Max2(Max2(r, g), b)
        least == Min2(Min2(r, g), b)
        l     == (most + least) \div 2
        diff  == most - least
        sden  == IF l > 127 THEN 510 - most - least ELSE most + least
        s     == DivI32(diff * 255, sden)
        h     == IF most = r
                 THEN DivI32(DivI32((g - b) * 255, diff)
                             + (IF g < b THEN 1530 ELSE 0), 6)
                 ELSE IF most = g
                 THEN DivI32(DivI32((b - r) * 255, diff) + 510, 6)
                 ELSE DivI32(DivI32((r - g) * 255, diff) + 1020, 6)
    IN  [h |-> h, s |-> s, l |-> l, divisors |-> {sden, diff, 6}]

\* The body of rgb_to_hsl up to the narrowing casts: the i32 values of h, s
\* and l, and the divisors of the divisions the taken branch evaluates.
rgb_to_hsl_i32(rgb) ==
    LET r     == rgb.r
        g     == rgb.g
        b     == rgb.b
        most  == Max2(Max2(r, g), b)
        least == Min2(Min2(r, g), b)
        l     == (most + least) \div 2
        diff  == most - least
        sden  == IF l > 127 THEN 510 - most - least ELSE most + least
        s     == DivI32(diff * 255, sden)
        h     == IF most = r
                 THEN DivI32(DivI32((g - b) * 255, diff)
                             + (IF g < b THEN 1530 ELSE 0), 6)
                 ELSE IF most = g
                 THEN DivI32(DivI32((b - r) * 255, diff) + 510, 6)
                 ELSE DivI32(DivI32((r - g) * 255, diff) + 1020, 6)
    IN  IF most = least
        THEN [h |-> 0, s |-> 0, l |-> l, divisors |-> {}]
        ELSE [h |-> h, s |-> s, l |-> l, divisors |-> {sden, diff, 6}]

\* rgb_to_hsl panics: a division of its taken branch has divisor 0.
HslPanics(rgb) == 0 \in rgb_to_hsl_i32(rgb).divisors

\* `h as u8`, `s as u8`, `l as u8`: the Hsl returned.
rgb_to_hsl(rgb) ==
    LET w == rgb_to_hsl_i32(rgb)
    IN  [h |-> AsU8(w.h), s |-> AsU8(w.s), l |-> AsU8(w.l)]

(***************************************************************************)
(* extract, lines 147-202.                                                 *)
(***************************************************************************)
\* vec![0u32; 4 * 4096]
SamplesLen == 4 * 4096

\* The hue shifted by 1 instead of 2.
packed_ShortShift(y_val, h, l) == BitOr(BitOr(Shl(y_val, 4), Shl(h, 1)), l)

\* ((y_val as usize) << 4) | ((h as usize) << 2) | (l as usize)
packed(y_val, h, l) == BitOr(BitOr(Shl(y_val, 4), Shl(h, 2)), l)

\* The masked luminance, hue and lightness of a pixel, lines 159-164.
y_val(rgb) == BitAnd(F32AsU8(Luma(rgb)), 192)

h_masked(rgb) == BitAnd(rgb_to_hsl(rgb).h, 192)

l_masked(rgb) == BitAnd(rgb_to_hsl(rgb).l, 192)

\* let idx = packed * 4
idx(rgb) == packed(y_val(rgb), h_masked(rgb), l_masked(rgb)) * 4

\* samples[i], 0 where the sparse map holds nothing.
Get(s, i) == IF i \in DOMAIN s THEN s[i] ELSE <<0, 0>>

\* The value of channel j of a pixel added to samples[idx + j].
Channel(rgb, j) ==
    CASE j = 0 -> rgb.r
      [] j = 1 -> rgb.g
      [] j = 2 -> rgb.b
      [] j = 3 -> 1

\* A store in place of `+=`.
AddRun_Store(old, v, k) == BigOf(v)

\* `samples[i] += v` done k times, as a natural (not yet cut to 32 bits).
AddRun(old, v, k) == BigAdd(old, BigMulSmall(BigOf(k), v))

\* The natural each accumulator of the chunk at index `at` reaches after k
\* iterations of the loop body, lines 168-171, on pixels equal to rgb.
ChunkAfter(s, at, rgb, k) ==
    [j \in 0..3 |-> AddRun(Get(s, at + j), Channel(rgb, j), k)]

\* The sequence of the elements of a finite set of integers, ascending.
RECURSIVE Ascending(_)
Ascending(S) ==
    IF S = {} THEN <<>>
    ELSE LET m == CHOOSE x \in S : \A y \in S : x <= y
         IN  <<m>> \o Ascending(S \ {m})

\* samples.chunks(4): the chunks 0..4095, line 175.
Chunks == 0..((SamplesLen \div 4) - 1)

\* The chunks that pass `if count > 0`, line 177: the ones averaged.
Averaged(s) == {c \in Chunks : Get(s, 4 * c + 3) # <<0, 0>>}

\* (chunk[0] / count) as u8, lines 178-180.  A zero count panics in Rust;
\* the caller tests the counts first, and the 0 here is never used.
avg(sum, count) ==
    IF count = <<0, 0>> THEN 0 ELSE BigAsU8(BigDivMod(sum, count).q)

\* Lines 175-188: (count, avg_rgb) of the averaged chunks, in their order.
Collect(s, full) ==
    LET order == Ascending(full)
    IN  [n \in 1..Len(order) |->
            LET c     == order[n]
                count == Get(s, 4 * c + 3)
            IN  [count |-> count,
                 rgb   |-> [r |-> avg(Get(s, 4 * c), count),
                            g |-> avg(Get(s, 4 * c + 1), count),
                            b |-> avg(Get(s, 4 * c + 2), count)]]]

\* Ascending by count.
Before_Ascending(a, b) == BigLe(a.count, b.count)

\* The comparator of line 190, |a, b| b.0.cmp(&a.0): a may stand before b.
Before(a, b) == BigLe(b.count, a.count)

\* The outcomes of sort_unstable_by: the orders of `list` the comparator
\* allows (elements that compare equal may end in any order).
Sorted(list) ==
    LET N     == Len(list)
        perms == {f \in [1..N -> 1..N] : \A i, j \in 1..N : i # j => f[i] # f[j]}
    IN  {[i \in 1..N |-> list[f[i]]] : f \in
            {f \in perms : \A i \in 1..N : \A j \in 1..N :
                               i < j => Before(list[f[i]], list[f[j]])}}

\* A usize (64 bits) as four 16-bit limbs, the least significant first.
Usize(n) == <<n % 65536, n \div 65536, 0, 0>>

\* usize::MAX
UsizeMax == <<65535, 65535, 65535, 65535>>

\* The usize is below 2^31; its value then.
Fits31(u) == u[3] = 0 /\ u[4] = 0 /\ u[2] < 32768

Val(u) == u[2] * 65536 + u[1]

\* number_of_color.min(used.len()), line 192, for a length below 2^31.
UsizeMin(u, len) == IF Fits31(u) /\ Val(u) <= len THEN Val(u) ELSE len

\* size_of::<Color>(): rgb and hsl of 3 bytes each, the f32 of 4, padded
\* to the alignment of the f32.
ColorSize == 12

\* Vec::with_capacity(n) panics ("capacity overflow"): n * size_of::<Color>()
\* exceeds isize::MAX = 2^63 - 1 bytes.
CapacityOverflow(u) ==
    LET c1 == u[1] * ColorSize
        c2 == u[2] * ColorSize + (c1 \div 65536)
        c3 == u[3] * ColorSize + (c2 \div 65536)
        c4 == u[4] * ColorSize + (c3 \div 65536)
    IN  c4 >= 32768

\* The whole sorted list.
top_used_All(list, n) == list

\* &used[..nmin], lines 192-193.
top_used(list, n) == SubSeq(list, 1, UsizeMin(n, Len(list)))

\* used.into_iter().take(number_of_color), line 197.
take(list, n) == SubSeq(list, 1, UsizeMin(n, Len(list)))

\* The sum of the counts of a list, as a natural, line 194.
RECURSIVE SumCounts(_)
SumCounts(list) ==
    IF list = <<>> THEN <<0, 0>>
    ELSE BigAdd(list[1].count, SumCounts(Tail(list)))

\* The hsl of the colour with red and blue exchanged.
Color_new_Swapped(rgb, proportion) ==
    [rgb        |-> rgb,
     hsl        |-> rgb_to_hsl([r |-> rgb.b, g |-> rgb.g, b |-> rgb.r]),
     proportion |-> proportion]

\* Color::new, lines 57-64.  The proportion is kept as the two operands of
\* the f32 division of line 198, count and sum_counts.
Color_new(rgb, proportion) ==
    [rgb |-> rgb, hsl |-> rgb_to_hsl(rgb), proportion |-> proportion]

(***************************************************************************)
(* The inputs.                                                             *)
(***************************************************************************)
Rgb(r, g, b) == [r |-> r, g |-> g, b |-> b]

\* The sampled channel values: the stride, and the values around the
\* boundaries of the two-bit masks.
Levels ==
    {v \in 0..255 : v % ChanStep = 0 \/ v % 64 \in {0, 63} \/ v = 254}

AnyRgb == {Rgb(r, g, b) : r \in Levels, g \in Levels, b \in Levels}

Greys == {Rgb(v, v, v) : v \in 0..255}

\* The channel values on either side of the boundaries of the two-bit masks.
Corners ==
    LET ends == {v \in 0..255 : v % 64 \in {0, 63}}
    IN  {Rgb(r, g, b) : r \in ends, g \in ends, b \in ends}

\* The colours of the images with more than one pixel.
Palette ==
    {Rgb(255, 255, 255), Rgb(250, 250, 250), Rgb(0, 0, 0),
     Rgb(100, 20, 30), Rgb(214, 163, 101)}

RunLens == {1, BigRun}

NoRgb == Rgb(0, 0, 0)

NoHsl == [h |-> 0, s |-> 0, l |-> 0]

(***************************************************************************)
(* The state.                                                              *)
(***************************************************************************)
VARIABLES
    pc,               \* where the call stands
    arg,              \* rgb_to_hsl called alone: its argument
    wide,             \* ... its i32 locals h, s, l before the casts
    ret,              \* ... the Hsl it returned
    build,            \* overflow checks of the build: "debug" panics, "release" wraps
    number_of_color,  \* extract's argument
    samples,          \* the accumulators, index -> u32; an absent index holds 0
    seen,             \* the pixels img.pixels() has yielded, as a bag
    runs,             \* the runs of equal pixels yielded
    used,             \* the list `used` after the sort
    colors            \* the Vec<Color> returned

vars == <<pc, arg, wide, ret, build, number_of_color, samples, seen, runs,
          used, colors>>

NoWide == [h |-> 0, s |-> 0, l |-> 0, divisors |-> {}]

\* rgb_to_hsl about to be called on one colour (tests::test_rgb_to_hsl).
InitHsl ==
    /\ pc = "hsl_call"
    /\ arg \in AnyRgb \cup Greys
    /\ wide = NoWide
    /\ ret = NoHsl
    /\ build = "release"
    /\ number_of_color = Usize(0)
    /\ samples = [i \in {} |-> <<0, 0>>]
    /\ seen = EmptyBag
    /\ runs = 0
    /\ used = <<>>
    /\ colors = <<>>

\* extract called, the image decoded and `samples` allocated, line 151.
InitExtract ==
    /\ pc = "loop"
    /\ arg = NoRgb
    /\ wide = NoWide
    /\ ret = NoHsl
    /\ build \in {"debug", "release"}
    /\ number_of_color \in {Usize(n) : n \in 0..MaxColors} \cup {UsizeMax}
    /\ samples = [i \in {} |-> <<0, 0>>]
    /\ seen = EmptyBag
    /\ runs = 0
    /\ used = <<>>
    /\ colors = <<>>

Init == InitHsl \/ InitExtract

(***************************************************************************)
(* The actions.                                                            *)
(***************************************************************************)
\* rgb_to_hsl(&rgb), lines 86-116.
CallRgbToHsl ==
    /\ pc = "hsl_call"
    /\ IF HslPanics(arg)
       THEN /\ pc' = "div_panic"
            /\ UNCHANGED <<wide, ret>>
       ELSE /\ pc' = "hsl_ret"
            /\ wide' = rgb_to_hsl_i32(arg)
            /\ ret' = rgb_to_hsl(arg)
    /\ UNCHANGED <<arg, build, number_of_color, samples, seen, runs, used,
                   colors>>

\* The runs the image may continue with: one pixel of any corner colour for
\* an image of one pixel, runs of palette colours otherwise.
NextRuns ==
    IF seen = EmptyBag
    THEN (Corners \X {1}) \cup (Palette \X RunLens)
    ELSE IF BagToSet(seen) \subseteq Palette
    THEN Palette \X RunLens
    ELSE {}

\* k iterations of the loop body, lines 153-172, on k pixels equal to rgb.
\* (`at` and `after` are bound by \E over a singleton so that each is
\* evaluated once.)
Accumulate(rgb, k) ==
    /\ pc = "loop"
    /\ runs < MaxRuns
    /\ IF HslPanics(rgb)
       THEN /\ pc' = "div_panic"
            /\ UNCHANGED <<samples, seen, runs>>
       ELSE \E at \in {idx(rgb)} :
            IF at + 3 >= SamplesLen
            THEN /\ pc' = "index_panic"
                 /\ UNCHANGED <<samples, seen, runs>>
            ELSE \E after \in {ChunkAfter(samples, at, rgb, k)} :
                 IF build = "debug" /\ \E j \in 0..3 : OverflowsU32(after[j])
                 THEN /\ pc' = "overflow_panic"
                      /\ UNCHANGED <<samples, seen, runs>>
                 ELSE /\ pc' = "loop"
                      /\ samples' =
                           [i \in DOMAIN samples \cup {at + j : j \in 0..3} |->
                               IF i \in at..(at + 3) THEN WrapU32(after[i - at])
                                                     ELSE samples[i]]
                      /\ seen' = seen (+) [x \in {rgb} |-> k]
                      /\ runs' = runs + 1
    /\ UNCHANGED <<arg, wide, ret, build, number_of_color, used, colors>>

\* The image is at its end: lines 174-201.
Finish ==
    /\ pc = "loop"
    /\ \E full \in {Averaged(samples)} :
       IF \E c \in full : Get(samples, 4 * c + 3) = <<0, 0>>
       THEN /\ pc' = "div_panic"
            /\ UNCHANGED <<used, colors>>
       ELSE
       \E sorted \in Sorted(Collect(samples, full)) :
       \E sum \in {SumCounts(top_used(sorted, number_of_color))} :
       \E outs \in {take(sorted, number_of_color)} :
          IF build = "debug" /\ OverflowsU32(sum)
          THEN /\ pc' = "overflow_panic"
               /\ UNCHANGED <<used, colors>>
          ELSE IF CapacityOverflow(number_of_color)
          THEN /\ pc' = "capacity_panic"
               /\ UNCHANGED <<used, colors>>
          ELSE IF \E i \in 1..Len(outs) : HslPanics(outs[i].rgb)
          THEN /\ pc' = "div_panic"
               /\ UNCHANGED <<used, colors>>
          ELSE /\ pc' = "done"
               /\ used' = sorted
               /\ colors' =
                    [i \in 1..Len(outs) |->
                        Color_new(outs[i].rgb,
                                  [count      |-> outs[i].count,
                                   sum_counts |-> WrapU32(sum)])]
    /\ UNCHANGED <<arg, wide, ret, build, number_of_color, samples, seen, runs>>

Next ==
    \/ CallRgbToHsl
    \/ \E run \in NextRuns : Accumulate(run[1], run[2])
    \/ Finish

Spec == Init /\ [][Next]_vars

(***************************************************************************)
(* What the claims are stated with.                                        *)
(***************************************************************************)
\* The sum of the values of a function of finite domain.
RECURSIVE BigSumOver(_)
BigSumOver(f) ==
    IF DOMAIN f = {} THEN <<0, 0>>
    ELSE LET x == CHOOSE y \in DOMAIN f : TRUE
         IN  BigAdd(f[x], BigSumOver([y \in DOMAIN f \ {x} |-> f[y]]))

\* The pixels yielded so far, each with the index it is added at and its
\* number: the set of <<rgb, idx(rgb), number>>.
Tally == {<<p, idx(p), seen[p]>> : p \in BagToSet(seen)}

\* The true sums of a tally: at each index its pixels are added at, the
\* unbounded sum of the channel values (of the ones, for a count).
TrueSums(tally) ==
    [i \in UNION {{e[2] + j : j \in 0..3} : e \in tally} |->
        BigSumOver([e \in {x \in tally : x[2] = i - (i % 4)} |->
                       BigMulSmall(BigOf(e[3]), Channel(e[1], i % 4))])]

\* The same cut to 32 bits.
WrappedSums(tally) ==
    [i \in UNION {{e[2] + j : j \in 0..3} : e \in tally} |->
        WrapU32(TrueSums(tally)[i])]

\* Two accumulator arrays added index by index, as u32.
Merge(a, b) ==
    [i \in DOMAIN a \cup DOMAIN b |-> WrapU32(BigAdd(Get(a, i), Get(b, i)))]

\* The pixels yielded so far, counted.
PixelCount == BigSumOver([p \in BagToSet(seen) |-> BigOf(seen[p])])

\* The buckets that hold a pixel of the image.
BucketsOfImage == {idx(p) \div 4 : p \in BagToSet(seen)}

\* The buckets whose count is not 0.
NonEmpty ==
    {c \in {i \div 4 : i \in DOMAIN samples} : Get(samples, 4 * c + 3) # <<0, 0>>}

\* The top two bits of the 8-bit luminance, hue and lightness of a pixel.
Y2(rgb) == F32AsU8(Luma(rgb)) \div 64

H2(rgb) == rgb_to_hsl(rgb).h \div 64

L2(rgb) == rgb_to_hsl(rgb).l \div 64

\* The pixels yielded so far, each with its three fields and the index it
\* is added at: the set of <<rgb, <<Y2, H2, L2>>, idx(rgb)>>.
Fields == {<<p, <<Y2(p), H2(p), L2(p)>>, idx(p)>> : p \in BagToSet(seen)}

\* The 64 keys three two-bit fields give.
Keys64 == {1024 * y + 256 * h + 64 * l : y \in 0..3, h \in 0..3, l \in 0..3}

\* The values of a function of finite domain, as a bag.
RECURSIVE BagOf(_)
BagOf(f) ==
    IF DOMAIN f = {} THEN EmptyBag
    ELSE LET x == CHOOSE y \in DOMAIN f : TRUE
         IN  SetToBag({f[x]}) (+) BagOf([y \in DOMAIN f \ {x} |-> f[y]])

\* The counts of the returned colours, and of all the non-empty buckets.
ReturnedCounts == BagOf([i \in 1..Len(colors) |-> colors[i].proportion.count])

BucketCounts == BagOf([c \in NonEmpty |-> Get(samples, 4 * c + 3)])

(***************************************************************************)
(* C1: for every pixel grid and every number_of_color, extract returns,    *)
(* and returns exactly min(number_of_color, number of non-empty buckets)   *)
(* colours: never more than number_of_color, every bucket of the image     *)
(* when number_of_color is larger, none when number_of_color = 0.          *)
(***************************************************************************)
C1_ReturnsMin ==
    /\ pc \notin {"capacity_panic", "overflow_panic", "div_panic", "index_panic"}
    /\ pc = "done" =>
          /\ Len(colors) = UsizeMin(number_of_color, Cardinality(BucketsOfImage))
          /\ Fits31(number_of_color) => Len(colors) <= Val(number_of_color)
          /\ number_of_color = Usize(0) => colors = <<>>

C3_Descending ==
    pc = "done" =>
        /\ \A i \in 1..(Len(colors) - 1) :
              BigLe(colors[i + 1].proportion.count, colors[i].proportion.count)
        /\ \A all \in {BucketCounts}, got \in {ReturnedCounts} :
              /\ got \sqsubseteq all
              /\ \A out \in BagToSet(all (-) got), in \in BagToSet(got) :
                    BigLe(out, in)

\* Two colours of different counts returned, a third bucket left out.
C3_Witness ==
    /\ pc = "done"
    /\ Len(colors) = 2
    /\ Len(used) = 3
    /\ BigLt(colors[2].proportion.count, colors[1].proportion.count)

(***************************************************************************)
(* C4: every returned Color has hsl = rgb_to_hsl(rgb) of its own rgb, and  *)
(* its rgb is the truncated average of its bucket.                         *)
(***************************************************************************)
C4_HslOfOwnRgb ==
    pc = "done" =>
        \A i \in 1..Len(colors) :
            /\ colors[i].hsl = rgb_to_hsl(colors[i].rgb)
            /\ colors[i].rgb = used[i].rgb

\* Two colours returned, the first the average of two different pixels and
\* no pixel of the image itself.
C4_Witness ==
    /\ pc = "done"
    /\ colors # <<>>
    /\ colors[1].rgb \notin BagToSet(seen)
    /\ Len(colors) = 2
    /\ colors[2].rgb.r # colors[2].rgb.b

(***************************************************************************)
(* C5: rgb_to_hsl of an achromatic colour (r = g = b) returns h = 0,       *)
(* s = 0, l = r.                                                           *)
(***************************************************************************)
C5_Achromatic ==
    (pc = "hsl_ret" /\ arg.r = arg.g /\ arg.g = arg.b) =>
        ret = [h |-> 0, s |-> 0, l |-> arg.r]

\* RGB(255,255,255) converted to HSL(0,0,255).
C5_Witness ==
    /\ pc = "hsl_ret"
    /\ arg = Rgb(255, 255, 255)
    /\ ret = [h |-> 0, s |-> 0, l |-> 255]

(***************************************************************************)
(* C6: no division has a zero divisor: rgb_to_hsl never panics on one,     *)
(* alone or inside extract, no averaged bucket has count 0, and every      *)
(* proportion computed has total_weight > 0.                               *)
(***************************************************************************)
C6_NoZeroDivisor ==
    /\ pc # "div_panic"
    /\ pc = "hsl_ret" => 0 \notin wide.divisors
    /\ pc = "done" =>
          /\ \A i \in 1..Len(used) : used[i].count # <<0, 0>>
          /\ \A i \in 1..Len(colors) :
                colors[i].proportion.sum_counts # <<0, 0>>

\* A chromatic colour converted: the divisions were evaluated.
C6_Witness ==
    /\ pc = "hsl_ret"
    /\ arg.r = 255
    /\ arg.g = 254
    /\ arg.b = 254
    /\ wide.divisors = {1, 6}

(***************************************************************************)
(* C7: the key of every pixel is 1024*Y2 + 256*H2 + 64*L2 with Y2, H2, L2  *)
(* the top two bits of its luminance, hue and lightness: it lies in        *)
(* 0..4095, differs for different (Y2, H2, L2), its four accumulators lie  *)
(* inside the array, and only the 64 keys of that form are ever used.      *)
(***************************************************************************)
C7_Key ==
    /\ pc # "index_panic"
    /\ \A fields \in {Fields} :
          /\ \A e \in fields :
                \A key \in {1024 * e[2][1] + 256 * e[2][2] + 64 * e[2][3]} :
                    /\ {e[2][1], e[2][2], e[2][3]} \subseteq 0..3
                    /\ e[3] = 4 * key
                    /\ key \in 0..4095
                    /\ 4 * key + 3 < SamplesLen
                    /\ {4 * key + j : j \in 0..3} \subseteq DOMAIN samples
                    /\ \A f \in fields : e[2] # f[2] => e[3] # f[3]
          /\ DOMAIN samples =
                UNION {{4 * (1024 * e[2][1] + 256 * e[2][2] + 64 * e[2][3]) + j :
                           j \in 0..3} : e \in fields}
    /\ {i \div 4 : i \in DOMAIN samples} \subseteq Keys64
    /\ Cardinality(Keys64) = 64

\* A pixel accumulated whose three fields are all non-zero.
C7_Witness ==
    /\ pc = "loop"
    /\ \E e \in Fields : e[2][1] > 0 /\ e[2][2] > 0 /\ e[2][3] > 0

C9_NoWrap ==
    pc = "hsl_ret" =>
        \A most \in {Max2(Max2(arg.r, arg.g), arg.b)} :
            /\ wide.h \in 0..254
            /\ wide.s \in 0..255
            /\ wide.l \in 0..255
            /\ ret = [h |-> wide.h, s |-> wide.s, l |-> wide.l]
            /\ (most = arg.r /\ arg.g >= arg.b) => wide.h \in 0..42
            /\ (most = arg.r /\ arg.g < arg.b) => wide.h \in 212..254
            /\ (most # arg.r /\ most = arg.g) => wide.h \in 42..127
            /\ (most # arg.r /\ most # arg.g) => wide.h \in 127..212

\* Red the maximum and green below blue: the hue takes the offset 1530.
C9_Witness ==
    /\ pc = "hsl_ret"
    /\ arg.r > arg.b
    /\ arg.b > arg.g
    /\ wide.h >= 212

(***************************************************************************)
(* C10: after each step of the loop every u32 accumulator holds the true   *)
(* sum (the true count) of the pixels of its bucket, without overflow: the *)
(* counts sum to the number of pixels, each sum is at most 255 * count,    *)
(* and each average lies in 0..255.                                        *)
(***************************************************************************)
C10_TrueSums ==
    /\ pc # "overflow_panic"
    /\ pc \in {"loop", "done"} =>
          /\ samples = TrueSums(Tally)
          /\ BigSumOver([c \in NonEmpty |-> Get(samples, 4 * c + 3)]) = PixelCount
          /\ \A c \in NonEmpty, j \in 0..2 :
                /\ BigLe(Get(samples, 4 * c + j),
                         BigMulSmall(Get(samples, 4 * c + 3), 255))
                /\ BigLe(BigDivMod(Get(samples, 4 * c + j),
                                   Get(samples, 4 * c + 3)).q, <<0, 255>>)

====
